---- MODULE Spec2Model ----
(***************************************************************************)
(* Texture cache, texture loading and sprite geometry of src/opengl.c.     *)
(*                                                                         *)
(* The state is the linked list texture_list, the heap blocks that hold    *)
(* glTexture structs, the set of texture names the GL owns, and a record   *)
(* of what the last call did (return value, log lines, GL and heap calls). *)
(* Doubles that the code computes as integer/integer are kept as the       *)
(* reduced fraction whose nearest binary64 value they are; division by a   *)
(* sheet count and the product back are rounded as binary64 rounds them.   *)
(***************************************************************************)
EXTENDS Integers, Sequences, FiniteSets, TLC

(* ----------------------------- bounds --------------------------------- *)
MaxTex    == 2   \* glTexture blocks on the heap, and texture names of the GL
MaxUsed   == 2   \* largest use count of a list node
MaxBlits  == 2   \* quads drawn in a frame
IntBits   == 8   \* width of the int gl_pot counts in

(* ---------------------------- inputs ---------------------------------- *)
NULL      == 0
NoName    == "NULL"                \* texture->name == NULL
Paths     == {"ship.png", "odd.png"}
ImageW(path) == IF path = "ship.png" THEN 256 ELSE 29
ImageH(path) == IF path = "ship.png" THEN 128 ELSE 5
\* (sx, sy) passed to gl_newSprite: callers "have to load same texture
\* always the same sprites"
Sheet(path) == IF path = "ship.png" THEN <<4, 2>> ELSE <<7, 1>>
OPENGL_TEX_MAPTRANS == "OPENGL_TEX_MAPTRANS"
Flags     == {"0", OPENGL_TEX_MAPTRANS}
LoadOutcomes == {"ok", "ndata", "img", "format", "flip"}
Surfaces  == {<<5, 5>>, <<16, 16>>}  \* (w, h) of in-memory surfaces
Addrs     == 1..MaxTex
Handles   == 1..MaxTex

VARIABLES texture_list, heap, glLive, crashed, exited, last, held
\* what the calls that draw and measure leave behind: the out-parameters
\* of the last gl_getSpriteFromDir, the viewport gl_init sets up, the
\* camera and the GUI offsets, the calls made to the GL, the last blit, and
\* the surface of the image whose transparency is mapped; pot is the call
\* of gl_pot that is running: its argument n, its local i and where it is
VARIABLES sprite, gl_screen, gl_camera, gui_off, gl_calls, blit, surface, pot
cacheVars == <<texture_list, heap, glLive, crashed, exited, last, held>>
gfxVars == <<sprite, gl_screen, gl_camera, gui_off, gl_calls, blit, surface,
             pot>>
vars == <<texture_list, heap, glLive, crashed, exited, last, held,
          sprite, gl_screen, gl_camera, gui_off, gl_calls, blit, surface, pot>>

(* --------------------------- arithmetic ------------------------------- *)
RECURSIVE GCD(_, _)
GCD(a, b) == IF b = 0 THEN a ELSE GCD(b, a % b)

RECURSIVE Pow2(_)
Pow2(k) == IF k <= 0 THEN 1 ELSE 2 * Pow2(k - 1)

IsPow2(n) == \E k \in 0..12 : n = Pow2(k)

\* floor(log2(a/b)) for positive integers a, b
RECURSIVE Log2Up(_, _, _)
Log2Up(a, b, l) == IF a >= 2 * b * Pow2(l) THEN Log2Up(a, b, l + 1) ELSE l
RECURSIVE Log2Down(_, _, _)
Log2Down(a, b, l) == IF a * Pow2(l) >= b THEN -l ELSE Log2Down(a, b, l + 1)
Log2Floor(a, b) == IF a >= b THEN Log2Up(a, b, 0) ELSE Log2Down(a, b, 1)

\* (a * 2^k) mod b
RECURSIVE ShlMod(_, _, _)
ShlMod(a, k, b) == IF k = 0 THEN a % b ELSE ShlMod((2 * a) % b, k - 1, b)

\* a double that holds the binary64 value nearest to n/d, n/d reduced
Dbl(n, d) == [n |-> n \div GCD(n, d), d |-> d \div GCD(n, d)]
\* x / y in binary64, for integer-valued doubles x >= 1, y >= 1
DblDiv(x, y) == Dbl(x, y)

\* Signed rounding error of the 53-bit quotient of q.n/q.d, in units of
\* 2^-k / q.d where k = 52 - floor(log2(q.n/q.d)): the stored quotient is
\* (q.n * 2^k + Rho(q)) / (q.d * 2^k).
Rho(q) ==
  LET k == 52 - Log2Floor(q.n, q.d)
      r == ShlMod(q.n, k, q.d)
  IN  IF 2 * r < q.d THEN 0 - r ELSE q.d - r

\* Sums, differences, products and quotients of doubles, as the fractions
\* they are nearest to
QInt(k) == [n |-> k, d |-> 1]
QAdd(a, b) == Dbl(a.n * b.d + b.n * a.d, a.d * b.d)
QNeg(a) == [n |-> 0 - a.n, d |-> a.d]
QSub(a, b) == QAdd(a, QNeg(b))
QMul(a, b) == Dbl(a.n * b.n, a.d * b.d)
QDiv(a, b) == IF b.n > 0 THEN Dbl(a.n * b.d, a.d * b.n)
              ELSE Dbl(0 - a.n * b.d, 0 - a.d * b.n)
QLess(a, b) == a.n * b.d < b.n * a.d
QLeq(a, b) == a.n * b.d <= b.n * a.d
fabs(a) == IF a.n < 0 THEN QNeg(a) ELSE a

\* (q * y == x) evaluated in binary64, where q is a stored quotient, y an
\* integer-valued double and x a positive integer-valued double with
\* x / y == q.n / q.d as fractions: the exact product is
\* x + g * Rho(q) / 2^k, rounded to nearest even at the spacing around x.
DblMulEq(q, y, x) ==
  IF q.n * y # x * q.d THEN FALSE
  ELSE LET g   == y \div q.d
           rho == Rho(q)
           d   == Log2Floor(x, 1) - Log2Floor(q.n, q.d)
       IN  IF rho < 0 /\ IsPow2(x)
           THEN 4 * g * (0 - rho) <= Pow2(d)
           ELSE 2 * g * (IF rho < 0 THEN 0 - rho ELSE rho) <= Pow2(d)

(* ------------------------------ M I S C ------------------------------- *)
\* gl_pot for the sizes of the images loaded here, which the doubling of i
\* never takes out of the ints; PotCall, PotTest and PotShift below are the
\* same loop step by step in ints of IntBits bits
RECURSIVE PotLoop(_, _)
PotLoop(i, n) == IF i < n THEN PotLoop(2 * i, n) ELSE i

\* gl_pot with the loop test "i <= n"
RECURSIVE PotLoopLe(_, _)
PotLoopLe(i, n) == IF i <= n THEN PotLoopLe(2 * i, n) ELSE i
gl_pot_le(n) == PotLoopLe(1, n)

gl_pot(n) == PotLoop(1, n)

(* ------------------------- G L _ T E X T U R E ------------------------ *)
\* a heap block that holds no glTexture
Block(st) == [st |-> st, name |-> NoName, texture |-> 0, w |-> 0, h |-> 0,
              rw |-> 0, rh |-> 0, sx |-> 0, sy |-> 0,
              sw |-> Dbl(0, 1), sh |-> Dbl(0, 1), trans |-> FALSE]

\* gl_prepareSurface: the surface is blitted into a power-of-two surface
gl_prepareSurface(w, h) == [w |-> gl_pot(w), h |-> gl_pot(h)]

\* gl_loadSurface: the texture name and the real size of the texture
gl_loadSurface(w, h, name) ==
  LET s == gl_prepareSurface(w, h)
  IN  [texture |-> name, rw |-> s.w, rh |-> s.h]

\* gl_loadImage: the glTexture built for a surface of w x h pixels
gl_loadImage(w, h, name) ==
  LET g == gl_loadSurface(w, h, name)
  IN  [st |-> "live", name |-> NoName, texture |-> g.texture,
       w |-> w, h |-> h, rw |-> g.rw, rh |-> g.rh, sx |-> 1, sy |-> 1,
       sw |-> Dbl(w, 1), sh |-> Dbl(h, 1), trans |-> FALSE]

\* gl_loadNewImage: NULL (the block marked "null") unless reading,
\* decoding, converting and flipping all succeed; then the texture of the image, named after its path
gl_loadNewImage(path, flags, outcome, name) ==
  IF outcome # "ok" THEN Block("null")
  ELSE [gl_loadImage(ImageW(path), ImageH(path), name) EXCEPT
          !.trans = (flags = OPENGL_TEX_MAPTRANS), !.name = path]

\* the walk of gl_newImage that never advances past the first node
FindByName_first(path, i) ==
  IF i > Len(texture_list) THEN 0
  ELSE IF texture_list[i].tex = NULL THEN -1
  ELSE IF heap[texture_list[i].tex].name = path THEN i
  ELSE 0

\* the walk of gl_newImage over texture_list: the index of the first node
\* whose texture is named path, 0 when the walk reaches the end, -1 when
\* the walk reads the name of a node whose tex is NULL
RECURSIVE FindByName(_, _)
FindByName(path, i) ==
  IF i > Len(texture_list) THEN 0
  ELSE IF texture_list[i].tex = NULL THEN -1
  ELSE IF heap[texture_list[i].tex].name = path THEN i
  ELSE FindByName(path, i + 1)

\* the walk of gl_freeTexture: the index of the first node with
\* cur->tex == texture, 0 when there is none
RECURSIVE FindByTex(_, _)
FindByTex(texture, i) ==
  IF i > Len(texture_list) THEN 0
  ELSE IF texture_list[i].tex = texture THEN i
  ELSE FindByTex(texture, i + 1)

NewNode(tex) == [tex |-> tex, used |-> 1]

RemoveAt(s, i) == [j \in 1..(Len(s) - 1) |-> IF j < i THEN s[j] ELSE s[j + 1]]

NoCall == [op |-> "none", ret |-> NULL, log |-> {}, load |-> FALSE,
           del |-> <<>>, freed |-> {}, dfree |-> FALSE, report |-> <<>>]

\* gl_newImage that returns the texture of node i without counting the use
NewImageHit_nocount(i) ==
  [list |-> texture_list, heap |-> heap, gl |-> glLive, crash |-> FALSE,
   ret |-> texture_list[i].tex, load |-> FALSE, log |-> {}]

\* a hit that puts the sheet of the texture back to 1 x 1
NewImageHit_reset(i) ==
  [list |-> [texture_list EXCEPT ![i].used = @ + 1],
   heap |-> IF texture_list[i].tex = NULL THEN heap
            ELSE LET t == heap[texture_list[i].tex]
                 IN  [heap EXCEPT ![texture_list[i].tex] =
                        [t EXCEPT !.sx = 1, !.sy = 1,
                                  !.sw = DblDiv(t.w, 1), !.sh = DblDiv(t.h, 1)]],
   gl |-> glLive, crash |-> FALSE,
   ret |-> texture_list[i].tex, load |-> FALSE, log |-> {}]

\* gl_newImage when the walk stops at node i: the node is used once more and
\* its texture is returned
NewImageHit(i) ==
  [list |-> [texture_list EXCEPT ![i].used = @ + 1],
   heap |-> heap, gl |-> glLive, crash |-> FALSE,
   ret |-> texture_list[i].tex, load |-> FALSE, log |-> {}]

\* gl_newImage when the walk reaches the end of the list: a node with
\* used = 1 whose tex is what gl_loadNewImage returns is put at the end of
\* the list, and tex is returned.  a is the block malloc returns for the
\* glTexture, name the texture name glGenTextures returns.
NewImageLoad(path, flags, outcome, a, name) ==
  LET t == gl_loadNewImage(path, flags, outcome, name)
  IN  IF t.st = "null"
      THEN [list |-> Append(texture_list, NewNode(NULL)),
            heap |-> heap, gl |-> glLive, crash |-> FALSE,
            ret |-> NULL, load |-> TRUE,
            log |-> {IF outcome \in {"ndata", "img"} THEN "ERR" ELSE "WARN"}]
      ELSE [list |-> Append(texture_list, NewNode(a)),
            heap |-> [heap EXCEPT ![a] = t], gl |-> glLive \cup {name},
            crash |-> FALSE, ret |-> a, load |-> TRUE, log |-> {}]

\* gl_newImage as a function of the state: the new list, heap and GL names,
\* the returned pointer and what the call did.  strcmp on the name of a
\* node whose tex is NULL faults.
gl_newImage(path, flags, outcome, a, name) ==
  LET i == FindByName(path, 1)
  IN  IF i = -1
      THEN [list |-> texture_list, heap |-> heap, gl |-> glLive,
            crash |-> TRUE, ret |-> NULL, load |-> FALSE, log |-> {}]
      ELSE IF i > 0 THEN NewImageHit(i)
      ELSE NewImageLoad(path, flags, outcome, a, name)

\* gl_newSprite that divides the width by sy and the height by sx
SetSprite_swapped(t, sx, sy) ==
  [t EXCEPT !.sx = sx, !.sy = sy,
            !.sw = DblDiv(t.w, sy), !.sh = DblDiv(t.h, sx)]

\* gl_newSprite sets the sheet geometry of the texture gl_newImage returned
SetSprite(t, sx, sy) ==
  [t EXCEPT !.sx = sx, !.sy = sy,
            !.sw = DblDiv(t.w, sx), !.sh = DblDiv(t.h, sy)]

(* ------------------------------ state --------------------------------- *)
\* no gl_getSpriteFromDir call was made
NoSprite == [op |-> "none", tex |-> NULL, dir |-> <<0, 0, 1>>, x |-> 0, y |-> 0]

\* gl_screen before gl_init: the size that was asked for, nothing derived
NoScreen(W, H) ==
  [w |-> W, h |-> H, rw |-> 0, rh |-> 0, nw |-> 0, nh |-> 0,
   scale |-> QInt(0), wscale |-> QInt(0), hscale |-> QInt(0),
   mxscale |-> QInt(0), myscale |-> QInt(0), ret |-> "none"]

\* no quad was drawn
NoQuad ==
  [colour |-> "none", x |-> QInt(0), y |-> QInt(0), x2 |-> QInt(0),
   y2 |-> QInt(0), tx |-> QInt(0), ty |-> QInt(0), tx2 |-> QInt(0),
   ty2 |-> QInt(0)]

\* no blit was called
NoBlit == [fn |-> "none", tex |-> NULL, bx |-> QInt(0), by |-> QInt(0),
           sx |-> 0, sy |-> 0, bw |-> QInt(0), bh |-> QInt(0),
           drawn |-> FALSE, quad |-> NoQuad, log |-> {}]

\* gl_pot is not running
NoPot == [pc |-> "idle", n |-> 0, i |-> 0, ret |-> 0]

\* no image was loaded for its transparency: file is the decoded image,
\* pixels the surface after the flip (rows of w pixels), trans the bytes of
\* the map (mapped is FALSE for a NULL map), q the last gl_isTrans call
\* (none when op is "none")
NoSurface == [st |-> "none", w |-> 0, h |-> 0, colorkey |-> 0,
              file |-> <<>>, pixels |-> <<>>, mapped |-> FALSE,
              trans |-> <<>>, log |-> {},
              q |-> [op |-> "none", x |-> 0, y |-> 0, ret |-> FALSE]]

\* nothing was drawn or measured
GfxIdle ==
  /\ sprite = NoSprite
  /\ gl_screen = NoScreen(0, 0)
  /\ gl_camera = <<QInt(0), QInt(0)>>
  /\ gui_off = <<QInt(0), QInt(0)>>
  /\ gl_calls = <<>>
  /\ blit = NoBlit
  /\ surface = NoSurface
  /\ pot = NoPot

Init ==
  /\ GfxIdle
  /\ texture_list = <<>>
  /\ heap = [a \in Addrs |-> Block("unused")]
  /\ glLive = {}
  /\ crashed = FALSE
  /\ exited = FALSE
  /\ last = NoCall
  /\ held = [a \in Addrs |-> 0]

\* Calls are made until the program faults or shuts the subsystem down.
\* Once a block was freed a second time the heap is corrupt and nothing the
\* program does afterwards is defined: the model follows it no further.
Running == ~crashed /\ ~exited /\ ~last.dfree

\* malloc returns a block that is not in use, glGenTextures a name that the
\* GL does not own
FreeAddrs == {a \in Addrs : heap[a].st # "live"}
\* Texture names are opaque and glGenTextures returns one the GL does not
\* own: the model names the texture of block a "a", so that the textures
\* of two blocks in use never share a name.
GenName(a) == a

\* what the environment decides in a call of gl_newImage: nothing when the
\* walk ends at a node, else how the load ends and, when it succeeds, the
\* block and the texture name it gets
LoadEnv(path) ==
  IF FindByName(path, 1) # 0
  THEN {[outcome |-> "ok", a |-> NULL, name |-> 0]}
  ELSE {[outcome |-> o, a |-> NULL, name |-> 0] : o \in LoadOutcomes \ {"ok"}}
       \cup {[outcome |-> "ok", a |-> a, name |-> GenName(a)] :
                a \in FreeAddrs}

\* Bookkeeping of the callers, not of the code: held[a] is the number of
\* calls that returned the pointer a minus the number of gl_freeTexture(a)
\* calls since the block a was last allocated.
Handed(ret, fresh) ==
  IF ret = NULL THEN held
  ELSE [held EXCEPT ![ret] = IF fresh THEN 1 ELSE @ + 1]
GivenBack(texture) ==
  IF texture # NULL /\ heap[texture].st = "live"
  THEN [held EXCEPT ![texture] = @ - 1] ELSE held

NewImage(path, flags) ==
  /\ Running
  /\ \E e \in LoadEnv(path) :
       LET r == gl_newImage(path, flags, e.outcome, e.a, e.name)
       IN  /\ \A i \in 1..Len(r.list) : r.list[i].used <= MaxUsed
           /\ texture_list' = r.list
           /\ heap' = r.heap
           /\ glLive' = r.gl
           /\ crashed' = r.crash
           /\ last' = [NoCall EXCEPT !.op = "gl_newImage", !.ret = r.ret,
                         !.log = r.log, !.load = r.load]
           /\ held' = Handed(r.ret, r.load)
  /\ UNCHANGED exited
  /\ UNCHANGED gfxVars

NewSprite(path, sx, sy, flags) ==
  /\ Running
  /\ \E e \in LoadEnv(path) :
       LET r == gl_newImage(path, flags, e.outcome, e.a, e.name)
       IN  /\ \A i \in 1..Len(r.list) : r.list[i].used <= MaxUsed
           /\ texture_list' = r.list
           /\ heap' = IF r.ret = NULL THEN r.heap
                      ELSE [r.heap EXCEPT ![r.ret] = SetSprite(@, sx, sy)]
           /\ glLive' = r.gl
           /\ crashed' = r.crash
           /\ last' = [NoCall EXCEPT !.op = "gl_newSprite", !.ret = r.ret,
                         !.log = r.log, !.load = r.load]
           /\ held' = Handed(r.ret, r.load)
  /\ UNCHANGED exited
  /\ UNCHANGED gfxVars

\* gl_loadImage called on an in-memory surface: a texture without a name
\* that is not put on texture_list
LoadImage(w, h) ==
  /\ Running
  /\ \E a \in FreeAddrs :
       /\ heap' = [heap EXCEPT ![a] = gl_loadImage(w, h, GenName(a))]
       /\ glLive' = glLive \cup {GenName(a)}
       /\ last' = [NoCall EXCEPT !.op = "gl_loadImage", !.ret = a]
       /\ held' = Handed(a, TRUE)
  /\ UNCHANGED <<texture_list, crashed, exited>>
  /\ UNCHANGED gfxVars

\* gl_checkErr: a warning when glGetError reports an error
gl_checkErr(glerr) == IF glerr THEN {"OpenGL error"} ELSE {}

\* what gl_freeTexture leaves alone
FreeNothing ==
  [list |-> texture_list, heap |-> heap, gl |-> glLive, crash |-> FALSE,
   log |-> {}, del |-> <<>>, freed |-> {}, dfree |-> FALSE]

\* gl_freeTexture(NULL) without the NULL test: the walk finds no node and
\* texture->name faults
FreeNullTexture_deref == [FreeNothing EXCEPT !.crash = TRUE]

\* gl_freeTexture(NULL): a warning and return
FreeNullTexture == [FreeNothing EXCEPT !.log = {"free NULL texture"}]

\* gl_freeTexture of the texture of node i with the test "used < 0"
FreeListed_late(texture, i) ==
  IF texture_list[i].used - 1 < 0
  THEN [FreeNothing EXCEPT
          !.list  = RemoveAt(texture_list, i),
          !.heap  = [heap EXCEPT ![texture] = Block("freed")],
          !.gl    = glLive \ {heap[texture].texture},
          !.del   = <<heap[texture].texture>>,
          !.freed = {"texture", "name", "node"} \cup
                    (IF heap[texture].trans THEN {"trans"} ELSE {})]
  ELSE [FreeNothing EXCEPT
          !.list = [texture_list EXCEPT ![i].used = @ - 1]]

\* gl_freeTexture of the texture of node i: used is decremented, and at
\* used <= 0 the texture name, trans, name, the glTexture and the node are
\* freed and the node is unlinked
FreeListed(texture, i) ==
  IF texture_list[i].used - 1 <= 0
  THEN [FreeNothing EXCEPT
          !.list  = RemoveAt(texture_list, i),
          !.heap  = [heap EXCEPT ![texture] = Block("freed")],
          !.gl    = glLive \ {heap[texture].texture},
          !.del   = <<heap[texture].texture>>,
          !.freed = {"texture", "name", "node"} \cup
                    (IF heap[texture].trans THEN {"trans"} ELSE {})]
  ELSE [FreeNothing EXCEPT
          !.list = [texture_list EXCEPT ![i].used = @ - 1]]

\* gl_freeTexture of a texture no node holds that frees the glTexture but
\* leaves its texture name to the GL
FreeUnlisted_leak(texture, stale, glerr) ==
  LET t == IF heap[texture].st = "live" THEN heap[texture] ELSE stale
  IN  [FreeNothing EXCEPT
         !.heap  = [heap EXCEPT ![texture] = Block("freed")],
         !.crash = (heap[texture].st # "live" /\ stale.abort),
         !.log   = (IF t.name # NoName THEN {"not found in stack"} ELSE {})
                   \cup (IF heap[texture].st # "live" /\ stale.abort
                         THEN {} ELSE gl_checkErr(glerr)),
         !.freed = {"texture"} \cup
                   (IF t.name # NoName THEN {"name"} ELSE {})
                   \cup (IF t.trans THEN {"trans"} ELSE {}),
         !.dfree = (heap[texture].st # "live")]

\* gl_freeTexture of a texture no node holds: a warning when it has a
\* name, then the texture name, trans, name and the glTexture are freed
\* "anyways".  When the block was freed before, stale is what the call
\* reads from it (name, texture name, trans) and whether the allocator
\* aborts on the second free; glerr is what glGetError reports.
FreeUnlisted(texture, stale, glerr) ==
  LET t == IF heap[texture].st = "live" THEN heap[texture] ELSE stale
  IN  [FreeNothing EXCEPT
         !.heap  = [heap EXCEPT ![texture] = Block("freed")],
         !.gl    = glLive \ {t.texture},
         !.del   = <<t.texture>>,
         !.crash = (heap[texture].st # "live" /\ stale.abort),
         !.log   = (IF t.name # NoName THEN {"not found in stack"} ELSE {})
                   \cup (IF heap[texture].st # "live" /\ stale.abort
                         THEN {} ELSE gl_checkErr(glerr)),
         !.freed = {"texture"} \cup
                   (IF t.name # NoName THEN {"name"} ELSE {})
                   \cup (IF t.trans THEN {"trans"} ELSE {}),
         !.dfree = (heap[texture].st # "live")]

\* gl_freeTexture as a function of the state
gl_freeTexture(texture, stale, glerr) ==
  LET i == FindByTex(texture, 1)
  IN  IF texture = NULL THEN FreeNullTexture
      ELSE IF i > 0 THEN FreeListed(texture, i)
      ELSE FreeUnlisted(texture, stale, glerr)

\* what a read of a freed glTexture can give
StaleReads == [name : {"ship.png", NoName}, texture : 0..MaxTex,
               trans : BOOLEAN, abort : BOOLEAN]
NoStale    == [name |-> NoName, texture |-> 0, trans |-> FALSE,
               abort |-> FALSE]

\* the pointers a caller can pass: NULL, or a block that holds or once
\* held a glTexture
Pointers == {NULL} \cup {a \in Addrs : heap[a].st # "unused"}

FreeTexture(texture) ==
  /\ Running
  /\ texture \in Pointers
  /\ \E glerr \in (IF texture # NULL /\ FindByTex(texture, 1) = 0
                   THEN BOOLEAN ELSE {FALSE}),
        stale \in (IF texture # NULL /\ heap[texture].st = "freed"
                   THEN StaleReads ELSE {NoStale}) :
       LET r == gl_freeTexture(texture, stale, glerr)
       IN  /\ texture_list' = r.list
           /\ heap' = r.heap
           /\ glLive' = r.gl
           /\ crashed' = r.crash
           /\ last' = [NoCall EXCEPT !.op = "gl_freeTexture",
                         !.ret = texture, !.log = r.log, !.del = r.del,
                         !.freed = r.freed, !.dfree = r.dfree]
  /\ held' = GivenBack(texture)
  /\ UNCHANGED exited
  /\ UNCHANGED gfxVars

(* ----------------------------- G L O B A L ---------------------------- *)
\* the lines gl_exit prints for texture_list: name and use count per node
LeakReport(list) ==
  [i \in 1..Len(list) |-> <<heap[list[i].tex].name, list[i].used>>]

\* gl_exit: reads tex->tex->name of every node, which faults on a node
\* whose tex is NULL; frees nothing
gl_exit ==
  IF \E i \in 1..Len(texture_list) : texture_list[i].tex = NULL
  THEN [crash |-> TRUE, report |-> <<>>, log |-> {"Texture leak detected!"}]
  ELSE [crash |-> FALSE, report |-> LeakReport(texture_list),
        log |-> IF texture_list # <<>> THEN {"Texture leak detected!"}
                ELSE {}]

Exit ==
  /\ Running
  /\ crashed' = gl_exit.crash
  /\ exited' = ~gl_exit.crash
  /\ last' = [NoCall EXCEPT !.op = "gl_exit", !.log = gl_exit.log,
                !.report = gl_exit.report]
  /\ UNCHANGED <<texture_list, heap, glLive, held>>
  /\ UNCHANGED gfxVars

Next ==
  \/ \E path \in Paths, flags \in Flags : NewImage(path, flags)
  \/ \E path \in Paths, flags \in Flags :
       NewSprite(path, Sheet(path)[1], Sheet(path)[2], flags)
  \/ \E s \in Surfaces : LoadImage(s[1], s[2])
  \/ \E texture \in 0..MaxTex : FreeTexture(texture)
  \/ Exit

Spec == Init /\ [][Next]_vars

(* ------------------------- loaded textures ---------------------------- *)
\* The cache after gl_newSprite("ship.png", 4, 2, OPENGL_TEX_MAPTRANS) and
\* gl_newSprite("odd.png", 7, 1, 0) both loaded: the state in which the
\* calls that draw and measure are made.
SceneHeap ==
  [a \in Addrs |->
     IF a = 1
     THEN SetSprite(gl_loadNewImage("ship.png", OPENGL_TEX_MAPTRANS, "ok",
                                    GenName(1)),
                    Sheet("ship.png")[1], Sheet("ship.png")[2])
     ELSE IF a = 2
     THEN SetSprite(gl_loadNewImage("odd.png", "0", "ok", GenName(2)),
                    Sheet("odd.png")[1], Sheet("odd.png")[2])
     ELSE Block("unused")]

SceneInit ==
  /\ texture_list = <<NewNode(1), NewNode(2)>>
  /\ heap = SceneHeap
  /\ glLive = {GenName(1), GenName(2)}
  /\ crashed = FALSE
  /\ exited = FALSE
  /\ last = [NoCall EXCEPT !.op = "gl_newSprite", !.ret = 2, !.load = TRUE]
  /\ held = [a \in Addrs |-> IF a \in {1, 2} THEN 1 ELSE 0]

(* ------------------- gl_getSpriteFromDir ------------------------------ *)
INT_MAX == 2147483647
INT_MIN == (0 - INT_MAX) - 1

\* / and % of C on ints, for a divisor b > 0: the quotient is truncated
\* toward zero and the remainder has the sign of a
CDiv(a, b) == IF a >= 0 \/ a % b = 0 THEN a \div b ELSE (a \div b) + 1
CMod(a, b) == a - b * CDiv(a, b)

\* A direction <<turns, n, d>> is the angle turns * 2 pi + n * pi / d, with
\* turns >= 0 and d > 0.  For a sheet of N sprites shard is 2 pi / N, so
\* (dir + shard/2) / shard is turns * N + (n * N + d) / (2 d).
Turns == {0, 1, 268435455, 268435456}
Headings == {<<t, n, 32>> : t \in Turns, n \in (0 - 24)..64}

\* The directions at which (dir + shard/2) / shard is not a whole number:
\* there the doubles rdir and shard give the quotient of the angles up to
\* a rounding far smaller than its distance to a whole number.  Direction 0
\* gives exactly 0.5.
OffBoundary(t, dir) == (dir[2] * (t.sy * t.sx) + dir[3]) % (2 * dir[3]) # 0

\* floor((dir + shard/2) / shard) without its whole turns, 0 when
\* dir + shard/2 is negative
RdirSlices(t, dir) ==
  LET F == dir[2] * (t.sy * t.sx) + dir[3]
  IN  IF dir[1] = 0 /\ F < 0 THEN 0 ELSE F \div (2 * dir[3])

\* rdir / shard does not fit an int: the conversion (int)(rdir / shard) is
\* undefined
DirOverflows(t, dir) ==
  LET N  == t.sy * t.sx
      fl == RdirSlices(t, dir)
  IN  dir[1] + (fl \div N) > (INT_MAX - (fl % N)) \div N

\* what the conversion of a double beyond INT_MAX gives: the "integer
\* indefinite" value of cvttsd2si, or the saturated value
IntUB == {INT_MIN, INT_MAX}

\* gl_getSpriteFromDir: the sprite (*x, *y) of texture t for direction dir;
\* ub is the int the conversion gives when it is undefined.  (The whole
\* turns are added so that no intermediate value leaves the ints.)
gl_getSpriteFromDir(t, dir, ub) ==
  LET sx == t.sx
      sy == t.sy
      fl == RdirSlices(t, dir)
      s0 == IF DirOverflows(t, dir) THEN ub
            ELSE IF fl < 0 THEN (dir[1] - 1) * (sy * sx) + (sy * sx + fl)
            ELSE dir[1] * (sy * sx) + fl
      s  == IF s0 > sy * sx - 1 THEN CMod(s0, sy * sx) ELSE s0
  IN  [x |-> CMod(s, sx), y |-> CDiv(s, sx)]

\* every cell a call can give
DirResults(t, dir) ==
  {gl_getSpriteFromDir(t, dir, ub) :
     ub \in (IF DirOverflows(t, dir) THEN IntUB ELSE {0})}

GetSpriteFromDir(a, dir) ==
  /\ heap[a].st = "live"
  /\ OffBoundary(heap[a], dir)
  /\ \E r \in DirResults(heap[a], dir) :
       sprite' = [op |-> "gl_getSpriteFromDir", tex |-> a, dir |-> dir,
                  x |-> r.x, y |-> r.y]
  /\ UNCHANGED cacheVars
  /\ UNCHANGED <<gl_screen, gl_camera, gui_off, gl_calls, blit, surface, pot>>

DirInit == SceneInit /\ GfxIdle
DirNext == \E a \in Addrs, dir \in Headings : GetSpriteFromDir(a, dir)
DirSpec == DirInit /\ [][DirNext]_vars

(* ----------------------------- viewport ------------------------------- *)
\* a projection that is scaled whatever the scale is
gl_defViewport_always(screen) ==
  <<[call |-> "glOrtho",
     left |-> QNeg(Dbl(screen.nw, 2)), right |-> Dbl(screen.nw, 2),
     bottom |-> QNeg(Dbl(screen.nh, 2)), top |-> Dbl(screen.nh, 2)],
    [call |-> "glScaled", x |-> screen.wscale, y |-> screen.hscale]>>

\* gl_defViewport: the projection covers the native size around the origin,
\* and is scaled by (wscale, hscale) when scale is not 1
gl_defViewport(screen) ==
  <<[call |-> "glOrtho",
     left |-> QNeg(Dbl(screen.nw, 2)), right |-> Dbl(screen.nw, 2),
     bottom |-> QNeg(Dbl(screen.nh, 2)), top |-> Dbl(screen.nh, 2)]>>
  \o (IF screen.scale # QInt(1)
      THEN <<[call |-> "glScaled", x |-> screen.wscale, y |-> screen.hscale]>>
      ELSE <<>>)

\* a set-up that leaves the native size at the real size
gl_init_real(W, H) ==
  LET s0 == [NoScreen(W, H) EXCEPT !.rw = W, !.rh = H, !.nw = W, !.nh = H,
                                   !.scale = QInt(1)]
      s1 == IF W < 600 /\ W <= H
            THEN [s0 EXCEPT !.scale = Dbl(W, 600),
                            !.h  = (H * 600) \div W,
                            !.w  = 600]
            ELSE IF H < 600 /\ W >= H
            THEN [s0 EXCEPT !.scale = Dbl(H, 600),
                            !.w  = (W * 600) \div H,
                            !.h  = 600]
            ELSE s0
  IN  [s1 EXCEPT !.wscale  = Dbl(s1.nw, s1.w),
                 !.hscale  = Dbl(s1.nh, s1.h),
                 !.mxscale = Dbl(s1.w, s1.rw),
                 !.myscale = Dbl(s1.h, s1.rh),
                 !.ret = "0"]

\* gl_init from the point where the window of W x H pixels exists: the
\* sizes are ints and (a * b) / c is the division of ints, the scales are
\* doubles
gl_init(W, H) ==
  LET s0 == [NoScreen(W, H) EXCEPT !.rw = W, !.rh = H, !.nw = W, !.nh = H,
                                   !.scale = QInt(1)]
      s1 == IF W < 600 /\ W <= H
            THEN [s0 EXCEPT !.scale = Dbl(W, 600),
                            !.h  = (H * 600) \div W,
                            !.nh = (H * W) \div 600,
                            !.w  = 600]
            ELSE IF H < 600 /\ W >= H
            THEN [s0 EXCEPT !.scale = Dbl(H, 600),
                            !.w  = (W * 600) \div H,
                            !.nw = (W * H) \div 600,
                            !.h  = 600]
            ELSE s0
  IN  [s1 EXCEPT !.wscale  = Dbl(s1.nw, s1.w),
                 !.hscale  = Dbl(s1.nh, s1.h),
                 !.mxscale = Dbl(s1.w, s1.rw),
                 !.myscale = Dbl(s1.h, s1.rh),
                 !.ret = "0"]

\* the window sizes SDL_SetVideoMode is asked for
ScreenW == {320, 400, 512, 599, 600, 601, 640, 800, 801, 1024}
ScreenH == {240, 300, 480, 599, 600, 601, 768, 900, 1200}
\* how the set-up of the video mode ends
VideoOutcomes == {"ok", "novideo", "nowindow"}

\* gl_init: -1 and no viewport when SDL_InitSubSystem or SDL_SetVideoMode
\* fails, else the viewport is computed and gl_defViewport sets the
\* projection
GlInit(W, H, outcome) ==
  /\ gl_screen.ret # "0"
  /\ IF outcome = "ok"
     THEN /\ gl_screen' = gl_init(W, H)
          /\ gl_calls' = gl_defViewport(gl_init(W, H))
     ELSE /\ gl_screen' = [NoScreen(W, H) EXCEPT !.ret = "-1"]
          /\ gl_calls' = <<>>
  /\ UNCHANGED cacheVars
  /\ UNCHANGED <<sprite, gl_camera, gui_off, blit, surface, pot>>

ViewInit == Init
ViewNext ==
  \E W \in ScreenW, H \in ScreenH, o \in VideoOutcomes : GlInit(W, H, o)
ViewSpec == ViewInit /\ [][ViewNext]_vars

(* --------------------------- B L I T T I N G -------------------------- *)
\* SCREEN_W and SCREEN_H are the ints gl_screen.w and gl_screen.h
SCREEN_W == gl_screen.w
SCREEN_H == gl_screen.h

\* the texture coordinates of a sprite with the rows counted from the
\* bottom of the texture
SpriteTexCoord_noflip(t, sx, sy) ==
  [tx |-> QDiv(QMul(t.sw, QInt(sx)), QInt(t.rw)),
   ty |-> QDiv(QMul(t.sh, QInt(sy)), QInt(t.rh))]

\* the texture coordinates of sprite (sx, sy) of the sheet, as
\* gl_blitSprite and gl_blitStaticSprite compute them
SpriteTexCoord(t, sx, sy) ==
  [tx |-> QDiv(QMul(t.sw, QInt(sx)), QInt(t.rw)),
   ty |-> QDiv(QMul(t.sh, QInt(t.sy - sy - 1)), QInt(t.rh))]

\* the calls of a quad whose errors are asked for before it is drawn
QuadCalls_early(t, glerr) ==
  <<[call |-> "glBindTexture", texture |-> t.texture, err |-> FALSE],
    [call |-> "glGetError", texture |-> 0, err |-> glerr],
    [call |-> "quad", texture |-> 0, err |-> FALSE]>>

\* the calls of one textured quad, in the order they are made: the texture
\* is bound, the quad is drawn between glBegin and glEnd, and gl_checkErr
\* asks glGetError, which answers an error (err) or GL_NO_ERROR
QuadCalls(t, glerr) ==
  <<[call |-> "glBindTexture", texture |-> t.texture, err |-> FALSE],
    [call |-> "quad", texture |-> 0, err |-> FALSE],
    [call |-> "glGetError", texture |-> 0, err |-> glerr]>>

\* the quad: its colour, its corners (x, y) and (x + w, y + h), and the
\* texture coordinates (tx, ty) and (tx + tw, ty + th) given at them
Quad(x, y, w, h, tx, ty, tw, th, c) ==
  [colour |-> IF c = "NULL" THEN "white" ELSE c,
   x |-> x, y |-> y, x2 |-> QAdd(x, w), y2 |-> QAdd(y, h),
   tx |-> tx, ty |-> ty, tx2 |-> QAdd(tx, tw), ty2 |-> QAdd(ty, th)]

\* gl_blitTexture: one quad of sw x sh at (x, y) showing the part of the
\* texture that starts at (tx, ty), then gl_checkErr
gl_blitTexture(t, x, y, tx, ty, c, glerr) ==
  LET tw == QDiv(t.sw, QInt(t.rw))
      th == QDiv(t.sh, QInt(t.rh))
  IN  [calls |-> QuadCalls(t, glerr),
       quad |-> Quad(x, y, t.sw, t.sh, tx, ty, tw, th, c),
       log |-> gl_checkErr(glerr)]

\* a camera-relative blit that compares with half the width as a double
gl_blitSprite_half(t, bx, by, sx, sy, c, glerr) ==
  LET x == QAdd(QSub(QSub(bx, gl_camera[1]), QDiv(t.sw, QInt(2))), gui_off[1])
      y == QAdd(QSub(QSub(by, gl_camera[2]), QDiv(t.sh, QInt(2))), gui_off[2])
      tc == SpriteTexCoord(t, sx, sy)
  IN  IF \/ QLess(QAdd(Dbl(SCREEN_W, 2), t.sw), fabs(x))
         \/ QLess(QAdd(Dbl(SCREEN_H, 2), t.sh), fabs(y))
      THEN [calls |-> <<>>, quad |-> NoQuad, log |-> {}]
      ELSE gl_blitTexture(t, x, y, tc.tx, tc.ty, c, glerr)

\* gl_blitSprite: the position is relative to the camera; a sprite far
\* off the screen is not drawn (SCREEN_W/2 is a division of ints)
gl_blitSprite(t, bx, by, sx, sy, c, glerr) ==
  LET x == QAdd(QSub(QSub(bx, gl_camera[1]), QDiv(t.sw, QInt(2))), gui_off[1])
      y == QAdd(QSub(QSub(by, gl_camera[2]), QDiv(t.sh, QInt(2))), gui_off[2])
      tc == SpriteTexCoord(t, sx, sy)
  IN  IF \/ QLess(QAdd(QInt(SCREEN_W \div 2), t.sw), fabs(x))
         \/ QLess(QAdd(QInt(SCREEN_H \div 2), t.sh), fabs(y))
      THEN [calls |-> <<>>, quad |-> NoQuad, log |-> {}]
      ELSE gl_blitTexture(t, x, y, tc.tx, tc.ty, c, glerr)

\* gl_blitStaticSprite: the position is in screen coordinates
gl_blitStaticSprite(t, bx, by, sx, sy, c, glerr) ==
  LET x == QSub(bx, Dbl(SCREEN_W, 2))
      y == QSub(by, Dbl(SCREEN_H, 2))
      tc == SpriteTexCoord(t, sx, sy)
  IN  gl_blitTexture(t, x, y, tc.tx, tc.ty, c, glerr)

\* a scaled blit whose quad has the size of the sprite
gl_blitScale_cell(t, bx, by, bw, bh, c, glerr) ==
  LET x == QSub(bx, Dbl(SCREEN_W, 2))
      y == QSub(by, Dbl(SCREEN_H, 2))
      tw == QDiv(t.sw, QInt(t.rw))
      th == QDiv(t.sh, QInt(t.rh))
  IN  [calls |-> QuadCalls(t, glerr),
       quad |-> Quad(x, y, t.sw, t.sh, QInt(0), QInt(0), tw, th, c),
       log |-> gl_checkErr(glerr)]

\* gl_blitScale: the quad is bw x bh and shows the sprite at (0, 0)
gl_blitScale(t, bx, by, bw, bh, c, glerr) ==
  LET x == QSub(bx, Dbl(SCREEN_W, 2))
      y == QSub(by, Dbl(SCREEN_H, 2))
      tw == QDiv(t.sw, QInt(t.rw))
      th == QDiv(t.sh, QInt(t.rh))
  IN  [calls |-> QuadCalls(t, glerr),
       quad |-> Quad(x, y, bw, bh, QInt(0), QInt(0), tw, th, c),
       log |-> gl_checkErr(glerr)]

\* gl_blitStatic: the sprite at (0, 0) in screen coordinates
gl_blitStatic(t, bx, by, c, glerr) ==
  LET x == QSub(bx, Dbl(SCREEN_W, 2))
      y == QSub(by, Dbl(SCREEN_H, 2))
  IN  gl_blitTexture(t, x, y, QInt(0), QInt(0), c, glerr)

\* the sizes of the window in which blits are made
BlitScreens == {<<800, 600>>, <<801, 601>>}
\* where the camera is, and what the GUI offsets are
Cameras == {<<QInt(0), QInt(0)>>, <<QInt(100), QInt(0 - 40)>>}
GuiOffsets == {<<QInt(0), QInt(0)>>, <<QInt(0), QInt(20)>>}
\* the positions sprites are drawn at relative to the camera
SpritePos == {<<QInt(0), QInt(0)>>, <<QInt(496), QInt(0)>>,
              <<Dbl(993, 2), QInt(0)>>, <<QInt(497), QInt(0)>>,
              <<QInt(0), QInt(397)>>, <<QInt(0 - 433), QInt(0 - 269)>>}
\* the sprites of a sheet
Cells(t) == {<<sx, sy>> : sx \in 0..(t.sx - 1), sy \in 0..(t.sy - 1)}
\* the positions in screen coordinates, and the size a texture is scaled to
StaticPos == {<<QInt(400), QInt(300)>>}
ScaleSize == {<<QInt(32), QInt(16)>>}
\* the colour c of a blit: NULL
NoColour == "NULL"

\* the quads drawn so far in this frame
Quads == {i \in 1..Len(gl_calls) : gl_calls[i].call = "quad"}

\* a blit is called on a texture in use, in a frame with room for a quad
CanBlit(a) ==
  /\ heap[a].st = "live"
  /\ gl_screen.ret = "0"
  /\ Cardinality(Quads) < MaxBlits

\* what a blit leaves: its calls at the end of the calls made to the GL,
\* and the record of the call with the quad it drew
Blitted(fn, a, bx, by, sx, sy, bw, bh, r) ==
  /\ gl_calls' = gl_calls \o r.calls
  /\ blit' = [fn |-> fn, tex |-> a, bx |-> bx, by |-> by, sx |-> sx,
              sy |-> sy, bw |-> bw, bh |-> bh, drawn |-> r.calls # <<>>,
              quad |-> r.quad, log |-> r.log]
  /\ UNCHANGED cacheVars
  /\ UNCHANGED <<sprite, gl_screen, gl_camera, gui_off, surface, pot>>

BlitSprite(a, bx, by, sx, sy) ==
  /\ CanBlit(a)
  /\ \E glerr \in BOOLEAN :
       Blitted("gl_blitSprite", a, bx, by, sx, sy, QInt(0), QInt(0),
               gl_blitSprite(heap[a], bx, by, sx, sy, NoColour, glerr))

BlitStaticSprite(a, bx, by, sx, sy) ==
  /\ CanBlit(a)
  /\ <<sx, sy>> \in Cells(heap[a])
  /\ \E glerr \in BOOLEAN :
       Blitted("gl_blitStaticSprite", a, bx, by, sx, sy, QInt(0), QInt(0),
               gl_blitStaticSprite(heap[a], bx, by, sx, sy, NoColour, glerr))

BlitScale(a, bx, by, bw, bh) ==
  /\ CanBlit(a)
  /\ \E glerr \in BOOLEAN :
       Blitted("gl_blitScale", a, bx, by, 0, 0, bw, bh,
               gl_blitScale(heap[a], bx, by, bw, bh, NoColour, glerr))

BlitStatic(a, bx, by) ==
  /\ CanBlit(a)
  /\ \E glerr \in BOOLEAN :
       Blitted("gl_blitStatic", a, bx, by, 0, 0, QInt(0), QInt(0),
               gl_blitStatic(heap[a], bx, by, NoColour, glerr))

\* gl_bindCamera: the camera is the vector pos
BindCamera(pos) ==
  /\ gl_camera' = pos
  /\ UNCHANGED cacheVars
  /\ UNCHANGED <<sprite, gl_screen, gui_off, gl_calls, blit, surface, pot>>

BlitInit ==
  /\ SceneInit
  /\ sprite = NoSprite
  /\ \E s \in BlitScreens : gl_screen = gl_init(s[1], s[2])
  /\ gl_camera \in Cameras
  /\ gui_off \in GuiOffsets
  /\ gl_calls = <<>>
  /\ blit = NoBlit
  /\ surface = NoSurface
  /\ pot = NoPot

BlitNext ==
  \/ \E a \in Addrs, p \in SpritePos :
       BlitSprite(a, p[1], p[2], 1, 0)
  \/ \E a \in Addrs, p \in StaticPos, sx \in 0..6, sy \in 0..1 :
       BlitStaticSprite(a, p[1], p[2], sx, sy)
  \/ \E a \in Addrs, p \in StaticPos, z \in ScaleSize :
       BlitScale(a, p[1], p[2], z[1], z[2])
  \/ \E a \in Addrs, p \in StaticPos : BlitStatic(a, p[1], p[2])
  \/ \E pos \in Cameras : BindCamera(pos)

BlitSpec == BlitInit /\ [][BlitNext]_vars

(* ------------------------- transparency map --------------------------- *)
\* the colours of the pixels, one of which is the colour key of the surface
Colours == {0, 1}
\* (w, h) of the images loaded for their transparency
MapSizes == {<<3, 3>>, <<4, 2>>}
\* the decoded images: h rows of w pixels, numbered from 0
Images(w, h) == [0..(h - 1) -> [0..(w - 1) -> Colours]]

\* SDL_VFlipSurface: rows y and h - 1 - y change places, for y < h / 2
RECURSIVE VFlipLoop(_, _, _)
VFlipLoop(rows, y, h) ==
  IF y < h \div 2
  THEN VFlipLoop([rows EXCEPT ![y] = rows[h - 1 - y], ![h - 1 - y] = rows[y]],
                 y + 1, h)
  ELSE rows
SDL_VFlipSurface(s) == [s EXCEPT !.pixels = VFlipLoop(s.pixels, 0, s.h)]

\* SDL_IsTrans: the pixel has the colour key of the surface
SDL_IsTrans(s, x, y) == s.pixels[y][x] = s.colorkey

\* a | b and a & b for a byte a and b = 0 or b a power of two
BitOr(a, b) == IF b = 0 \/ (a \div b) % 2 = 1 THEN a ELSE a + b
BitAnd(a, b) == IF b # 0 /\ (a \div b) % 2 = 1 THEN b ELSE 0

\* the two loops of SDL_MapTrans over the zeroed bytes t, from row i and
\* column j on: the bit of a pixel that is not transparent is set
RECURSIVE MapTransLoop(_, _, _, _)
MapTransLoop(s, t, i, j) ==
  IF i >= s.h THEN t
  ELSE IF j >= s.w THEN MapTransLoop(s, t, i + 1, 0)
  ELSE MapTransLoop(s,
         [t EXCEPT ![(i * s.w + j) \div 8] =
            BitOr(@, IF SDL_IsTrans(s, j, i) THEN 0
                     ELSE Pow2((i * s.w + j) % 8))],
         i, j + 1)

\* the number of bytes SDL_MapTrans allocates
MapSize(s) == (s.w * s.h) \div 8 + (IF (s.w * s.h) % 8 # 0 THEN 1 ELSE 0)

\* a map whose bits are numbered from the high end of the byte
SDL_MapTrans_msb(s) ==
  [b \in 0..(MapSize(s) - 1) |->
     LET RECURSIVE Sum(_)
         Sum(k) == IF k > 7 THEN 0
                   ELSE Sum(k + 1) +
                        (IF 8 * b + k < s.w * s.h
                            /\ ~SDL_IsTrans(s, (8 * b + k) % s.w, (8 * b + k) \div s.w)
                         THEN Pow2(7 - k) ELSE 0)
     IN  Sum(0)]

\* SDL_MapTrans when malloc gives the bytes: they are zeroed, then mapped
SDL_MapTrans(s) ==
  MapTransLoop(s, [b \in 0..(MapSize(s) - 1) |-> 0], 0, 0)

\* gl_isTrans: the bit of pixel (x, y) of the map is not set
gl_isTrans(t, x, y) ==
  BitAnd(t.trans[(y * t.w + x) \div 8], Pow2((y * t.w + x) % 8)) = 0

\* how malloc in SDL_MapTrans ends
MallocOutcomes == {"ok", "NULL"}
\* memset on the NULL malloc returned is undefined: the program faults
\* there, or goes on to the test that finds the NULL
MemsetNull == {"fault", "return"}

\* gl_loadNewImage from the decoded image on: the surface is flipped, its
\* transparency is mapped when the flag asks for it, and the texture keeps
\* the map.
LoadMapTrans(w, h, file, colorkey, flags, malloc, ub) ==
  /\ surface.st = "none" /\ ~crashed
  /\ LET s0 == [NoSurface EXCEPT !.w = w, !.h = h, !.colorkey = colorkey,
                                 !.file = file, !.pixels = file]
         s  == SDL_VFlipSurface(s0)
     IN  IF flags # OPENGL_TEX_MAPTRANS
         THEN surface' = [s EXCEPT !.st = "loaded"] /\ UNCHANGED crashed
         ELSE IF malloc = "ok"
         THEN /\ surface' = [s EXCEPT !.st = "loaded", !.mapped = TRUE,
                                      !.trans = SDL_MapTrans(s)]
              /\ UNCHANGED crashed
         ELSE IF ub = "fault"
         THEN crashed' = TRUE /\ UNCHANGED surface
         ELSE /\ surface' = [s EXCEPT !.st = "loaded",
                                      !.log = {"Out of Memory"}]
              /\ UNCHANGED crashed
  /\ UNCHANGED <<texture_list, heap, glLive, exited, last, held>>
  /\ UNCHANGED <<sprite, gl_screen, gl_camera, gui_off, gl_calls, blit, pot>>

\* gl_isTrans on a pixel of the image; it reads through trans, which
\* faults when the texture has no map
IsTrans(x, y) ==
  /\ surface.st = "loaded" /\ ~crashed
  /\ x < surface.w /\ y < surface.h
  /\ IF surface.mapped
     THEN /\ surface' = [surface EXCEPT
                          !.q = [op |-> "gl_isTrans", x |-> x, y |-> y,
                                 ret |-> gl_isTrans(surface, x, y)]]
          /\ UNCHANGED crashed
     ELSE crashed' = TRUE /\ UNCHANGED surface
  /\ UNCHANGED <<texture_list, heap, glLive, exited, last, held>>
  /\ UNCHANGED <<sprite, gl_screen, gl_camera, gui_off, gl_calls, blit, pot>>

TransInit == Init
TransNext ==
  \/ \E sz \in MapSizes, colorkey \in Colours, flags \in Flags,
        malloc \in MallocOutcomes, ub \in MemsetNull :
       \E file \in Images(sz[1], sz[2]) :
         LoadMapTrans(sz[1], sz[2], file, colorkey, flags, malloc, ub)
  \/ \E x \in 0..3, y \in 0..2 : IsTrans(x, y)
TransSpec == TransInit /\ [][TransNext]_vars

(* ------------------------------ gl_pot -------------------------------- *)
\* the ints of IntBits bits
IntMin == 0 - Pow2(IntBits - 1)
IntMax == Pow2(IntBits - 1) - 1
Ints == IntMin..IntMax
\* the int that is x modulo 2^IntBits
WrapInt(x) == ((x - IntMin) % Pow2(IntBits)) + IntMin

\* i << 1 that stays at the largest int when 2 * i does not fit
ShiftLeft1_sat(i) == IF 2 * i > IntMax THEN IntMax ELSE WrapInt(2 * i)

\* i <<= 1: 2 * i, reduced modulo 2^IntBits when it does not fit the int
\* (the shift instruction; C leaves the overflow of a signed shift
\* undefined)
ShiftLeft1(i) == WrapInt(2 * i)

\* gl_pot(n) is called: i = 1
PotCall(n) ==
  /\ pot.pc \in {"idle", "done"}
  /\ pot' = [pc |-> "test", n |-> n, i |-> 1, ret |-> 0]
  /\ UNCHANGED cacheVars
  /\ UNCHANGED <<sprite, gl_screen, gl_camera, gui_off, gl_calls, blit, surface>>

\* while (i < n): into the body, or out of the loop to return i
PotTest ==
  /\ pot.pc = "test"
  /\ pot' = IF pot.i < pot.n THEN [pot EXCEPT !.pc = "shift"]
            ELSE [pot EXCEPT !.pc = "done", !.ret = pot.i]
  /\ UNCHANGED cacheVars
  /\ UNCHANGED <<sprite, gl_screen, gl_camera, gui_off, gl_calls, blit, surface>>

\* i <<= 1, then back to the test
PotShift ==
  /\ pot.pc = "shift"
  /\ pot' = [pot EXCEPT !.pc = "test", !.i = ShiftLeft1(pot.i)]
  /\ UNCHANGED cacheVars
  /\ UNCHANGED <<sprite, gl_screen, gl_camera, gui_off, gl_calls, blit, surface>>

PotInit == Init
PotNext == (\E n \in Ints : PotCall(n)) \/ PotTest \/ PotShift
\* a call that is running goes on running: nothing else runs meanwhile
PotSpec == PotInit /\ [][PotNext]_vars /\ WF_vars(PotTest) /\ WF_vars(PotShift)

(* ------------------------------ claims -------------------------------- *)
Nodes == 1..Len(texture_list)
Loaded(i) == texture_list[i].tex # NULL
AllLoaded == \A i \in Nodes : Loaded(i)
NodesNamed(path) ==
  {i \in Nodes : Loaded(i) /\ heap[texture_list[i].tex].name = path}
Live(a) == heap[a].st = "live"
OthersKept(t) == \A b \in Addrs \ {t} : heap'[b] = heap[b]
Without(s, i) == SubSeq(s, 1, i - 1) \o SubSeq(s, i + 1, Len(s))

\* C1: texture_list never holds two nodes for one path, and while every
\* node holds a texture, gl_newImage of a path that has a node returns that
\* node's texture (same texture name), adds exactly one to its use count,
\* loads nothing and allocates no texture name.
OneNodePerName ==
  \A i, j \in Nodes :
    (i # j /\ Loaded(i) /\ Loaded(j))
      => heap[texture_list[i].tex].name # heap[texture_list[j].tex].name
C1_HitStep ==
  \A path \in Paths, flags \in Flags :
    (AllLoaded /\ NodesNamed(path) # {} /\ NewImage(path, flags)) =>
      LET i == CHOOSE n \in NodesNamed(path) : TRUE
      IN  /\ ~crashed'
          /\ last'.ret = texture_list[i].tex
          /\ heap'[last'.ret].texture = heap[texture_list[i].tex].texture
          /\ texture_list' =
               [texture_list EXCEPT ![i].used = texture_list[i].used + 1]
          /\ ~last'.load
          /\ glLive' = glLive
          /\ heap' = heap
C1_Dedup == [][OneNodePerName' /\ C1_HitStep]_vars
C1_Witness ==
  /\ last.op = "gl_newImage" /\ ~last.load /\ last.ret # NULL
  /\ \E i \in Nodes : texture_list[i].tex = last.ret /\ texture_list[i].used = 2

\* C2: gl_freeTexture of the texture of a node takes one from the node's use
\* count; the texture name is deleted (once), the glTexture freed and the
\* node unlinked exactly when the count reaches 0, and every other node
\* keeps its texture, its count and its place.
C2_ReleaseStep ==
  \A t \in Addrs :
    (FindByTex(t, 1) > 0 /\ FreeTexture(t)) =>
      LET i == FindByTex(t, 1)
      IN  /\ ~crashed' /\ ~last'.dfree
          /\ OthersKept(t)
          /\ glLive' \ {heap[t].texture} = glLive \ {heap[t].texture}
          /\ IF texture_list[i].used = 1
             THEN /\ texture_list' = Without(texture_list, i)
                  /\ heap'[t].st = "freed"
                  /\ last'.del = <<heap[t].texture>>
                  /\ heap[t].texture \notin glLive'
                  /\ {"texture", "node"} \subseteq last'.freed
                  /\ heap[t].trans => "trans" \in last'.freed
             ELSE /\ texture_list' =
                       [texture_list EXCEPT ![i].used = texture_list[i].used - 1]
                  /\ heap'[t] = heap[t]
                  /\ last'.del = <<>>
                  /\ last'.freed = {}
                  /\ glLive' = glLive
C2_Release == [][C2_ReleaseStep]_vars
C2_Witness ==
  /\ last.op = "gl_freeTexture" /\ last.ret # NULL
  /\ "node" \in last.freed /\ last.del # <<>>
  /\ texture_list # <<>>

\* C3: every node has used >= 1, and used is the number of calls that
\* returned the node's texture minus the number of gl_freeTexture calls on
\* it since the node was made (one call and no release for a node whose
\* load failed).
C3_UsedCount ==
  \A i \in Nodes :
    /\ texture_list[i].used >= 1
    /\ texture_list[i].used =
         IF Loaded(i) THEN held[texture_list[i].tex] ELSE 1
C3_Witness ==
  /\ last.op = "gl_freeTexture" /\ last.ret # NULL /\ last.del = <<>>
  /\ \E i \in Nodes : texture_list[i].tex = last.ret /\ texture_list[i].used >= 1
  /\ \E i \in Nodes : texture_list[i].used = 2

\* C4 (as claimed): a failed load gives the caller NULL, no call faults
\* afterwards, and every node holds a texture.
C4_LoadFailureSafe ==
  /\ (last.op \in {"gl_newImage", "gl_newSprite"} /\ last.log # {})
       => last.ret = NULL
  /\ crashed => last.dfree
  /\ AllLoaded

\* C5 (as claimed): gl_freeTexture of a texture right after the call that
\* took its node's use count to 0 and freed it only warns: no texture name
\* is deleted, no block is freed again, and the list is unchanged.
C5_ReleaseAfterFreeStep ==
  \A t \in Addrs :
    (/\ last.op = "gl_freeTexture" /\ last.ret = t /\ "node" \in last.freed
     /\ heap[t].st = "freed"
     /\ FreeTexture(t)) =>
      /\ last'.log # {}
      /\ last'.del = <<>>
      /\ last'.freed = {}
      /\ ~last'.dfree
      /\ ~crashed'
      /\ texture_list' = texture_list
C5_ReleaseAfterFree == [][C5_ReleaseAfterFreeStep]_vars

\* C6: gl_freeTexture of a glTexture in use that no node holds deletes its
\* texture name once, frees it and leaves every node and every other
\* texture alone.
Unowned(t) == Live(t) /\ FindByTex(t, 1) = 0
C6_Freed(t) ==
  /\ ~crashed' /\ ~last'.dfree
  /\ last'.del = <<heap[t].texture>>
  /\ heap[t].texture \notin glLive'
  /\ heap'[t].st = "freed"
  /\ "texture" \in last'.freed
  /\ texture_list' = texture_list
  /\ OthersKept(t)
\* C6 (as claimed): ... and always warns that the texture was not found
C6_UnownedWarns ==
  [][\A t \in Addrs :
       (Unowned(t) /\ FreeTexture(t)) =>
         (C6_Freed(t) /\ "not found in stack" \in last'.log)]_vars
\* C6 (amended): ... and warns that the texture was not found exactly when
\* the texture has a name, so not for a texture made from a surface
C6_UnownedFreed ==
  [][\A t \in Addrs :
       (Unowned(t) /\ FreeTexture(t)) =>
         (C6_Freed(t) /\ ("not found in stack" \in last'.log
                            <=> heap[t].name # NoName))]_vars
C6_Witness ==
  /\ last.op = "gl_freeTexture" /\ last.ret # NULL
  /\ last.freed = {"texture"} /\ ~last.dfree
  /\ "not found in stack" \notin last.log
  /\ texture_list # <<>>

\* C7: gl_freeTexture(NULL) warns and does nothing else: no fault, nothing
\* freed, no texture name deleted, list and textures unchanged.
C7_NullRelease ==
  [][FreeTexture(NULL) =>
       /\ last'.log = {"free NULL texture"}
       /\ ~crashed'
       /\ last'.del = <<>> /\ last'.freed = {} /\ ~last'.dfree
       /\ UNCHANGED <<texture_list, heap, glLive>>]_vars
C7_Witness ==
  /\ last.op = "gl_freeTexture" /\ last.ret = NULL
  /\ "free NULL texture" \in last.log
  /\ texture_list # <<>>

\* C8 (as claimed): gl_exit reports the name and the use count of every
\* node that is still on the list (and frees none).
C8_ExitReports ==
  last.op = "gl_exit" =>
    /\ ~crashed
    /\ Len(last.report) = Len(texture_list)
    /\ \A i \in Nodes :
         /\ Loaded(i)
         /\ last.report[i] =
              <<heap[texture_list[i].tex].name, texture_list[i].used>>

\* C9: the real size of every texture in use is the smallest power of two
\* that is at least its size, on each axis (5 -> 8, 16 -> 16).
SmallestPow2AtLeast(p, n) == IsPow2(p) /\ p >= n /\ (p = 1 \/ p \div 2 < n)
C9_Padding ==
  \A a \in Addrs :
    Live(a) =>
      /\ heap[a].w >= 1 /\ heap[a].h >= 1
      /\ SmallestPow2AtLeast(heap[a].rw, heap[a].w)
      /\ SmallestPow2AtLeast(heap[a].rh, heap[a].h)
      /\ heap[a].w = 5 => heap[a].rw = 8
      /\ heap[a].w = 16 => heap[a].rw = 16
C9_Witness ==
  \E a, b \in Addrs :
    /\ Live(a) /\ heap[a].w = 5 /\ heap[a].rw = 8
    /\ Live(b) /\ heap[b].w = 16 /\ heap[b].rw = 16

\* C10 (as claimed): sw * sx == w and sh * sy == h, as the doubles compare,
\* for every texture in use.
C10_ExactCells ==
  \A a \in Addrs :
    Live(a) => /\ DblMulEq(heap[a].sw, heap[a].sx, heap[a].w)
               /\ DblMulEq(heap[a].sh, heap[a].sy, heap[a].h)
\* C10 (amended): sw is the double nearest to w / sx and sh the one nearest
\* to h / sy; sw * sx == w holds whenever sx divides w, and sh * sy == h
\* whenever sy divides h.  A texture that was just loaded has a 1 x 1 sheet
\* with sw = w and sh = h, and the 4 x 2 sheet of the 256 x 128 image has
\* 64 x 64 cells.
C10_Cells ==
  /\ \A a \in Addrs :
       Live(a) =>
         LET t == heap[a]
         IN  /\ t.sx >= 1 /\ t.sy >= 1
             /\ t.sw.n * t.sx = t.w * t.sw.d
             /\ t.sh.n * t.sy = t.h * t.sh.d
             /\ (t.w % t.sx = 0) => DblMulEq(t.sw, t.sx, t.w)
             /\ (t.h % t.sy = 0) => DblMulEq(t.sh, t.sy, t.h)
             /\ (t.w = 256 /\ t.h = 128 /\ t.sx = 4 /\ t.sy = 2)
                  => (t.sw = [n |-> 64, d |-> 1] /\ t.sh = [n |-> 64, d |-> 1])
  /\ ((last.op = "gl_newImage" /\ last.load /\ last.ret # NULL)
        \/ last.op = "gl_loadImage")
       => LET t == heap[last.ret]
          IN  /\ t.sx = 1 /\ t.sy = 1
              /\ t.sw = [n |-> t.w, d |-> 1]
              /\ t.sh = [n |-> t.h, d |-> 1]
C10_Witness ==
  \E a \in Addrs :
    /\ Live(a) /\ heap[a].name = "ship.png"
    /\ heap[a].sx = 4 /\ heap[a].sy = 2
    /\ heap[a].sw = [n |-> 64, d |-> 1]
    /\ texture_list # <<>> /\ last.op = "gl_newImage"

\* C11 (as claimed): for every direction gl_getSpriteFromDir gives
\* x = idx mod sx and y = idx div sx with
\* idx = floor(max(0, dir + shard/2) / shard) mod (sx * sy), so that
\* 0 <= x < sx and 0 <= y < sy.
C11_Idx(t, dir) == RdirSlices(t, dir) % (t.sx * t.sy)
C11_DirCell ==
  sprite.op = "gl_getSpriteFromDir" =>
    LET t   == heap[sprite.tex]
        idx == C11_Idx(t, sprite.dir)
    IN  /\ sprite.x = idx % t.sx
        /\ sprite.y = idx \div t.sx
        /\ 0 <= sprite.x /\ sprite.x < t.sx
        /\ 0 <= sprite.y /\ sprite.y < t.sy

\* C12 (as claimed): a negative direction gives the sprite of direction 0,
\* and dir + 2 pi gives the sprite of dir for every dir >= -shard/2.
C12_Wrap ==
  sprite.op = "gl_getSpriteFromDir" =>
    LET t   == heap[sprite.tex]
        dir == sprite.dir
        c   == [x |-> sprite.x, y |-> sprite.y]
        back == <<dir[1] - 1, dir[2], dir[3]>>
    IN  /\ (dir[1] = 0 /\ dir[2] < 0)
          => c = gl_getSpriteFromDir(t, <<0, 0, dir[3]>>, 0)
        /\ (dir[1] >= 1 /\ (dir[1] >= 2 \/ dir[2] * (t.sx * t.sy) + dir[3] >= 0))
          => \A r \in DirResults(t, back) : r = c

\* the double a is the fraction n / d (d > 0)
QIs(a, n, d) == a.n * d = n * a.d
\* a <= n / d and n / d <= a (d > 0)
QAtMost(a, n, d) == a.n * d <= n * a.d
QAtLeast(a, n, d) == a.n * d >= n * a.d
SpriteBlits == {"gl_blitSprite", "gl_blitStaticSprite"}

QuadsOf(calls) == {i \in 1..Len(calls) : calls[i].call = "quad"}
\* a step of gl_blitSprite, whose outcome is in blit'
SpriteStep == blit'.fn = "gl_blitSprite" /\ gl_camera' = gl_camera
\* the raw position of the sprite blit in blit'
C14_Raw ==
  LET t == heap[blit'.tex]
  IN  [x |-> QAdd(QSub(QSub(blit'.bx, gl_camera[1]), QDiv(t.sw, QInt(2))),
                  gui_off[1]),
       y |-> QAdd(QSub(QSub(blit'.by, gl_camera[2]), QDiv(t.sh, QInt(2))),
                  gui_off[2])]
\* the sprite blit in blit' made no call when the raw position is farther
\* from the origin than halfW + sw or halfH + sh, and one quad at the raw
\* position otherwise
C14_Culls(halfW, halfH) ==
  LET t == heap[blit'.tex]
      r == C14_Raw
  IN  IF \/ QLess(QAdd(halfW, t.sw), fabs(r.x))
         \/ QLess(QAdd(halfH, t.sh), fabs(r.y))
      THEN ~blit'.drawn /\ gl_calls' = gl_calls
      ELSE /\ blit'.drawn
           /\ Len(gl_calls') > Len(gl_calls)
           /\ SubSeq(gl_calls', 1, Len(gl_calls)) = gl_calls
           /\ Cardinality(QuadsOf(gl_calls')) = Cardinality(QuadsOf(gl_calls)) + 1
           /\ blit'.quad.x = r.x /\ blit'.quad.y = r.y

\* C14 as claimed: a camera-relative blit is culled exactly when the raw
\* position exceeds half the screen width plus the sprite width (or the
\* same in height), for odd widths and heights too
C14_CullHalf ==
  [][SpriteStep => C14_Culls(Dbl(SCREEN_W, 2), Dbl(SCREEN_H, 2))]_vars
\* C14: a camera-relative blit with raw position x = bx - camera.x - sw/2 +
\* gui_xoff (and y alike) makes no draw call when |x| > SCREEN_W/2 + sw or
\* |y| > SCREEN_H/2 + sh, the halves being the integer quotients, and
\* otherwise draws exactly one quad at (x, y)
C14_CullIntHalf ==
  [][SpriteStep => C14_Culls(QInt(SCREEN_W \div 2), QInt(SCREEN_H \div 2))]_vars
C14_Witness ==
  /\ SCREEN_W = 801 /\ blit.fn = "gl_blitSprite" /\ ~blit.drawn
  /\ blit.bx = Dbl(993, 2) /\ blit.by = QInt(0)
  /\ gl_camera = <<QInt(0), QInt(0)>> /\ gui_off = <<QInt(0), QInt(0)>>
  /\ Len(gl_calls) = 0

AbsBlits == {"gl_blitStaticSprite", "gl_blitStatic", "gl_blitScale"}
\* a step of one of the blits in screen coordinates, with outcome in blit'
AbsStep == blit'.fn \in AbsBlits /\ gl_camera' = gl_camera
C15_Step ==
  LET t == heap[blit'.tex]
      q == blit'.quad
      w == IF blit'.fn = "gl_blitScale" THEN blit'.bw ELSE t.sw
      h == IF blit'.fn = "gl_blitScale" THEN blit'.bh ELSE t.sh
  IN  /\ blit'.drawn
      /\ Len(gl_calls') > Len(gl_calls)
      /\ SubSeq(gl_calls', 1, Len(gl_calls)) = gl_calls
      /\ Cardinality(QuadsOf(gl_calls')) = Cardinality(QuadsOf(gl_calls)) + 1
      /\ q.x = QSub(blit'.bx, Dbl(SCREEN_W, 2))
      /\ q.y = QSub(blit'.by, Dbl(SCREEN_H, 2))
      /\ q.x2 = QAdd(q.x, w) /\ q.y2 = QAdd(q.y, h)

\* C15: gl_blitStaticSprite, gl_blitStatic and gl_blitScale always draw
\* exactly one quad, with origin (bx - SCREEN_W/2, by - SCREEN_H/2) whatever
\* the camera and the GUI offsets are; the quad of gl_blitScale is bw x bh,
\* that of the other two is one sprite (sw x sh)
C15_AbsoluteBlits == [][AbsStep => C15_Step]_vars
C15_Witness ==
  /\ blit.fn = "gl_blitScale" /\ blit.drawn /\ SCREEN_W = 801
  /\ gl_camera = <<QInt(100), QInt(0 - 40)>> /\ gui_off = <<QInt(0), QInt(20)>>
  /\ blit.quad.x = QSub(QInt(400), Dbl(801, 2))
  /\ blit.quad.x2 = QAdd(blit.quad.x, QInt(32))
  /\ heap[blit.tex].sw # QInt(32)

\* a step of any of the four blits, with outcome in blit'
BlitStep == blit'.fn # "none" /\ gl_camera' = gl_camera
\* gl_calls is a sequence of whole quads: bind, quad, error query
C19_Triples ==
  /\ Len(gl_calls) % 3 = 0
  /\ \A i \in 1..Len(gl_calls) :
       gl_calls[i].call = CASE i % 3 = 1 -> "glBindTexture"
                            [] i % 3 = 2 -> "quad"
                            [] OTHER     -> "glGetError"
C19_Step ==
  /\ UNCHANGED <<crashed, exited>>
  /\ blit'.log \subseteq {"OpenGL error"}
  /\ IF blit'.drawn
     THEN /\ Len(gl_calls') = Len(gl_calls) + 3
          /\ SubSeq(gl_calls', 1, Len(gl_calls)) = gl_calls
          /\ LET n == Len(gl_calls)
             IN  /\ gl_calls'[n + 1].call = "glBindTexture"
                 /\ gl_calls'[n + 1].texture = heap[blit'.tex].texture
                 /\ gl_calls'[n + 2].call = "quad"
                 /\ gl_calls'[n + 3].call = "glGetError"
                 /\ gl_calls'[n + 3].err = (blit'.log # {})
     ELSE gl_calls' = gl_calls

\* C19: the calls of the blits are made in the order of the blits, whole
\* quad after whole quad: a blit that draws binds the GL texture of its own
\* glTexture, draws one quad, then asks glGetError, all before it returns;
\* an error answered there only logs a warning, and the blits after it are
\* made as before
C19_DrawOrder == []C19_Triples /\ [][BlitStep => C19_Step]_vars
C19_Witness ==
  /\ Len(gl_calls) = 6
  /\ gl_calls[3].err /\ ~gl_calls[6].err
  /\ gl_calls[1].texture = heap[1].texture
  /\ gl_calls[4].texture = heap[2].texture
  /\ blit.tex = 2 /\ blit.drawn /\ blit.log = {} /\ ~crashed

\* gl_init returned 0: the viewport in gl_screen is the one it computed
ViewportSet == gl_screen.ret = "0"
Min(a, b) == IF a <= b THEN a ELSE b
\* the sizes and scales of the viewport as the three cases give them, the
\* quotients of sizes being quotients of ints
C17_Sizes ==
  LET s == gl_screen
      W == s.rw
      H == s.rh
  IN  /\ (W < 600 /\ W <= H) =>
           /\ s.scale = Dbl(W, 600)
           /\ s.w = 600 /\ s.h = (H * 600) \div W
           /\ s.nw = W  /\ s.nh = (H * W) \div 600
      /\ (~(W < 600 /\ W <= H) /\ H < 600 /\ W >= H) =>
           /\ s.scale = Dbl(H, 600)
           /\ s.h = 600 /\ s.w = (W * 600) \div H
           /\ s.nh = H  /\ s.nw = (W * H) \div 600
      /\ (W >= 600 /\ H >= 600) =>
           /\ s.scale = QInt(1)
           /\ s.w = W /\ s.h = H /\ s.nw = W /\ s.nh = H
      /\ QIs(s.wscale, s.nw, s.w) /\ QIs(s.hscale, s.nh, s.h)
      /\ QIs(s.mxscale, s.w, s.rw) /\ QIs(s.myscale, s.h, s.rh)
      /\ (Min(W, H) < 600) => (Min(s.w, s.h) = 600)

\* C17 as claimed: the sizes and scales, and w * wscale == nw and
\* h * hscale == nh as the doubles compare
C17_ViewportExact ==
  ViewportSet =>
    /\ C17_Sizes
    /\ DblMulEq(gl_screen.wscale, gl_screen.w, gl_screen.nw)
    /\ DblMulEq(gl_screen.hscale, gl_screen.h, gl_screen.nh)
\* C17: for a window of W x H, if W < 600 and W <= H then scale = W/600,
\* (w, h) = (600, H*600/W) and (nw, nh) = (W, H*W/600); the same with the
\* axes exchanged if H < 600 and W >= H; else scale = 1 and both sizes are
\* W x H.  The quotients of sizes are quotients of ints.  wscale, hscale,
\* mxscale and myscale are the doubles nearest to nw/w, nh/h, w/rw and h/rh;
\* w * wscale == nw and h * hscale == nh hold as doubles when the quotient
\* is a binary fraction (as when the scale is 1), and the shorter of w and h
\* is 600 when the shorter of W and H is below 600.
C17_Viewport ==
  ViewportSet =>
    /\ C17_Sizes
    /\ IsPow2(gl_screen.wscale.d)
         => DblMulEq(gl_screen.wscale, gl_screen.w, gl_screen.nw)
    /\ IsPow2(gl_screen.hscale.d)
         => DblMulEq(gl_screen.hscale, gl_screen.h, gl_screen.nh)
C17_Witness ==
  /\ ViewportSet /\ gl_screen.rw = 400 /\ gl_screen.rh = 600
  /\ gl_screen.w = 600 /\ gl_screen.h = 900
  /\ gl_screen.nw = 400 /\ gl_screen.nh = 400
  /\ gl_screen.scale = Dbl(2, 3) /\ gl_screen.hscale = Dbl(4, 9)
  /\ gl_screen.myscale = Dbl(3, 2)

\* the projection calls in gl_calls are glOrtho over the native size around
\* the origin, then glScaled(wscale, hscale) exactly when scale is not 1
C18_Projection ==
  LET s == gl_screen
      o == gl_calls[1]
  IN  /\ Len(gl_calls) >= 1
      /\ o.call = "glOrtho"
      /\ QIs(o.left, 0 - s.nw, 2) /\ QIs(o.right, s.nw, 2)
      /\ QIs(o.bottom, 0 - s.nh, 2) /\ QIs(o.top, s.nh, 2)
      /\ IF s.scale = QInt(1)
         THEN Len(gl_calls) = 1
         ELSE /\ Len(gl_calls) = 2
              /\ gl_calls[2].call = "glScaled"
              /\ gl_calls[2].x = s.wscale /\ gl_calls[2].y = s.hscale
HitStep(op) == last'.op = op /\ ~last'.load /\ last'.ret # NULL
\* the returned texture is the one of a node that was in the list, now used
\* once more: the pointer the earlier callers hold
C20_Shared ==
  \E i \in Nodes :
    /\ texture_list[i].tex = last'.ret
    /\ Live(last'.ret)
    /\ Len(texture_list') = Len(texture_list)
    /\ texture_list'[i].tex = last'.ret
    /\ texture_list'[i].used = texture_list[i].used + 1
C20_SpriteHit ==
  LET t  == heap[last'.ret]
      sx == Sheet(t.name)[1]
      sy == Sheet(t.name)[2]
  IN  /\ C20_Shared
      /\ heap'[last'.ret] = [t EXCEPT !.sx = sx, !.sy = sy,
                                      !.sw = Dbl(t.w, sx), !.sh = Dbl(t.h, sy)]
      /\ OthersKept(last'.ret)
C20_ImageHit == C20_Shared /\ heap' = heap

\* C20: the sheet geometry is a property of the glTexture all callers
\* share.  gl_newSprite of a path that is in the list returns that glTexture
\* with sx, sy, sw and sh set to the new sheet and the node used once more,
\* whatever the geometry was; gl_newImage of a path in the list returns it
\* with the geometry as it was.
C20_SharedGeometry ==
  [][/\ HitStep("gl_newSprite") => C20_SpriteHit
     /\ HitStep("gl_newImage") => C20_ImageHit]_vars
C20_Witness ==
  /\ last.op = "gl_newSprite" /\ ~last.load /\ last.ret # NULL
  /\ heap[last.ret].name = "ship.png"
  /\ heap[last.ret].sx = 4 /\ heap[last.ret].sy = 2
  /\ heap[last.ret].sw = QInt(64) /\ heap[last.ret].sh = QInt(64)
  /\ \E i \in Nodes : texture_list[i].tex = last.ret /\ texture_list[i].used = 2

\* bit k of byte b
BitSet(b, k) == (b \div Pow2(k)) % 2 = 1
\* C16: for a texture loaded with OPENGL_TEX_MAPTRANS whose map was
\* allocated, the map has ceil(w * h / 8) bytes; bit (y * w + x) % 8 of byte
\* (y * w + x) / 8 is set exactly when pixel (x, y) of the flipped image
\* differs from the colour key, every other bit is clear, and gl_isTrans of
\* (x, y) is true exactly when that pixel has the colour key
C16_TransMap ==
  (surface.st = "loaded" /\ surface.mapped) =>
    LET w == surface.w
        h == surface.h
        size == (w * h + 7) \div 8
        flipped(x, y) == surface.file[h - 1 - y][x]
    IN  /\ DOMAIN surface.trans = 0..(size - 1)
        /\ \A b \in 0..(size - 1) :
             /\ surface.trans[b] \in 0..255
             /\ \A k \in 0..7 :
                  LET n == 8 * b + k
                  IN  BitSet(surface.trans[b], k)
                        <=> (n < w * h
                             /\ flipped(n % w, n \div w) # surface.colorkey)
        /\ \A x \in 0..(w - 1), y \in 0..(h - 1) :
             gl_isTrans(surface, x, y) <=> (flipped(x, y) = surface.colorkey)
        /\ surface.q.op = "gl_isTrans" =>
             (surface.q.ret
                <=> (flipped(surface.q.x, surface.q.y) = surface.colorkey))
C16_Witness ==
  /\ surface.st = "loaded" /\ surface.mapped
  /\ surface.w = 3 /\ surface.h = 3 /\ surface.colorkey = 0
  /\ surface.file[2][0] = 0 /\ surface.file[0][2] = 1
  /\ DOMAIN surface.trans = {0, 1}
  /\ surface.trans[0] = 254 /\ surface.trans[1] = 1
  /\ surface.q = [op |-> "gl_isTrans", x |-> 0, y |-> 0, ret |-> TRUE]

\* gl_pot is running / has returned
PotRunning == pot.pc \in {"test", "shift"}
PotReturned == pot.pc = "done"
\* the largest power of two an int holds
PotMax == Pow2(IntBits - 2)
\* what gl_pot returned is a power of two that is at least n
PotResult ==
  PotReturned => /\ \E k \in 0..(IntBits - 2) : pot.ret = Pow2(k)
                 /\ pot.ret >= pot.n

====
